---- MODULE Spec2Model ----
(***************************************************************************)
(* Model of the stream orchestration engine of the standalone server:      *)
(* class RTMPStreamManager and the HTTP handlers that drive it.            *)
(*                                                                         *)
(* Node runs the handlers on one event loop.  A step of this model is one  *)
(* run-to-completion slice of JavaScript: from the delivery of an event    *)
(* (HTTP request, resolved database query, process event, timer) up to the *)
(* next await that needs the event loop.  A database statement is taken to *)
(* execute at the moment its continuation runs.                            *)
(***************************************************************************)
EXTENDS Integers, Sequences, FiniteSets, Bags, TLC

\* ---------------------------------------------------------------- bounds
NumVideos == 2      \* rows the videos table starts with (ids 1..NumVideos)
MaxProcs == 2       \* transcoder processes not yet closed at one time
MaxTasks == 1       \* asynchronous calls in flight at once
MaxNow == 1         \* reconciler periods the clock counts after a start
MaxDeletes == 1     \* delete requests made while the engine runs

Videos == 1..NumVideos
Pids == 1..MaxProcs

\* ------------------------------------------------------- JavaScript values
NULL == 0           \* null / undefined where an id or a handle is expected
MOCK == -1          \* the { mock: true } registry marker
NOTIME == -1        \* streamStartTime = null, started_at = NULL
SOMETIME == 0       \* a non-null started_at
NAN == -2           \* NaN, the result of x % 0

TickMs == 5000      \* setInterval period of the reconciler

Kinds == {"video", "multistream"}
Keys == Kinds \X Videos

NoKey == <<"null", NULL>>

\* `video_${videoId}` of startStream
StreamKey(videoId) == <<"video", videoId>>

VARIABLES
  activeStreams,     \* this.activeStreams: key -> pid, MOCK, or NULL (no entry)
  loopEnabled,       \* this.loopEnabled
  uptimeInterval,    \* this.uptimeInterval is a live interval handle
  timers,            \* interval timers of the event loop: created by
                     \* setInterval and not cleared since
  streamStartTime,   \* this.streamStartTime
  currentVideoIndex, \* this.currentVideoIndex
  playlist,          \* this.playlist, as the sequence of the rows' ids
  procs,             \* the process table, by pid
  tasks,             \* the bag of asynchronous calls in flight
  videos,            \* ids of the rows of table videos
  files,             \* ids whose file exists under uploads/
  playlistOrder,     \* column playlist_order of the rows of videos, by id
  activeConfig,      \* a row of stream_configs has is_active = true
  dbStatus,          \* the latest row of table stream_status
  spawnAvailable,    \* require('child_process') succeeds
  now,               \* wall clock: reconciler periods since the last session
                     \* was registered
  lastClose,         \* when the step just taken delivered a 'close': how it
                     \* was handled
  stopScn,           \* a stop request of a streaming, loop-disabled engine
                     \* has been made and no start or loop request since
  config,            \* the destination profile handed to the engine
  lastCall           \* when the step just taken ended a call: the call, its
                     \* argument and what it returned or answered

vars == <<activeStreams, loopEnabled, uptimeInterval, timers, streamStartTime,
          currentVideoIndex, playlist, procs, tasks, videos, files,
          playlistOrder,
          activeConfig, dbStatus, spawnAvailable, now, lastClose, stopScn,
          config, lastCall>>

engineVars == <<activeStreams, loopEnabled, uptimeInterval, timers,
                streamStartTime,
                currentVideoIndex, playlist>>
storeVars == <<videos, files, playlistOrder, activeConfig>>

\* ------------------------------------------------------------ the database
\* columns of stream_status (CREATE TABLE in initializeDatabase)
StatusColumns ==
  {"status", "viewer_count", "uptime", "current_video_id", "started_at",
   "loop_playlist"}

\* the row initializeDatabase inserts; the omitted columns take their defaults
\* (started_at is written by the handlers and read by none of them: the row
\* of the model does not carry its value)
DefaultStatus ==
  [status |-> "offline", viewer_count |-> 0, uptime |-> "00:00:00",
   current_video_id |-> NULL, loop_playlist |-> FALSE]

\* an UPDATE that writes the columns the table has and skips the other names
ExecUpdateKnownColumns(row, upd) ==
  [k \in DOMAIN row |-> IF k \in DOMAIN upd THEN upd[k] ELSE row[k]]

\* UPDATE stream_status SET <k = v for each k of upd>: PostgreSQL rejects the
\* whole statement when it names a column the table does not have
ExecUpdate(row, upd) ==
  IF DOMAIN upd \subseteq StatusColumns
  THEN [k \in DOMAIN row |-> IF k \in DOMAIN upd THEN upd[k] ELSE row[k]]
  ELSE row

UpdateAccepted(upd) == DOMAIN upd \subseteq StatusColumns

\* { ...a, ...b }
Spread(a, b) ==
  [k \in DOMAIN a \cup DOMAIN b |-> IF k \in DOMAIN b THEN b[k] ELSE a[k]]

\* The rows of videos in id order.  The upload handler gives each new row
\* MAX(playlist_order) + 1, so this is the playlist as the uploads leave it.
RECURSIVE SortedIds(_)
SortedIds(S) ==
  IF S = {} THEN <<>>
  ELSE LET m == CHOOSE x \in S : \A y \in S : x <= y
       IN <<m>> \o SortedIds(S \ {m})

OrderedVideos == SortedIds(videos)

\* the sequences that list every element of S once
Arrangements(S) ==
  {f \in [1..Cardinality(S) -> S] : \A i, j \in DOMAIN f : f[i] = f[j] => i = j}

\* SELECT * FROM videos ORDER BY playlist_order ASC: the rows by ascending
\* playlist_order; the statement names no second key, so rows of equal
\* playlist_order come in whatever order the database produces them
SelectOrdered ==
  {rows \in Arrangements(videos) :
     \A i, j \in DOMAIN rows :
       i < j => playlistOrder[rows[i]] <= playlistOrder[rows[j]]}

\* ------------------------------------------------------------ processes
\* A process that was spawned and whose 'close' has not been delivered: the
\* streamKey its handlers closed over, its state (running; killed = SIGTERM
\* sent, exit not yet observed; errored = 'error' delivered), the loop flag
\* when it was spawned and whether its startStream call stopped a prior
\* session of the same key.  A pid is free again once 'close' is delivered.
FreeProc ==
  [key |-> NoKey, state |-> "free", loopAtStart |-> FALSE, replaced |-> FALSE]

NewProc(key, loopNow, replacedPrior) ==
  [key |-> key, state |-> "running", loopAtStart |-> loopNow,
   replaced |-> replacedPrior]

NoClose == [seen |-> FALSE, loopAtStart |-> FALSE, handoff |-> FALSE]

FreePids == {p \in Pids : procs[p].state = "free"}
FreePid == CHOOSE p \in FreePids : \A q \in FreePids : p <= q
Alive(p) == procs[p].state \in {"running", "killed"}

\* ------------------------------------------------------------ engine methods
\* The synchronous methods are functions of the part of the engine they touch.
Cur ==
  [activeStreams |-> activeStreams, procs |-> procs,
   uptimeInterval |-> uptimeInterval, timers |-> timers,
   streamStartTime |-> streamStartTime]

Commit(m) ==
  /\ activeStreams' = m.activeStreams
  /\ procs' = m.procs
  /\ uptimeInterval' = m.uptimeInterval
  /\ timers' = m.timers
  /\ streamStartTime' = m.streamStartTime

\* startUptimeTracking() that does not clear the interval it replaces
StartUptimeTrackingNoClear(m, t) ==
  [m EXCEPT !.uptimeInterval = TRUE, !.timers = @ + 1,
            !.streamStartTime = NOTIME]

\* stopUptimeTracking(): clearInterval of the handle held, if one is held
StopUptimeTracking(m) ==
  [m EXCEPT !.uptimeInterval = FALSE,
            !.timers = IF m.uptimeInterval THEN @ - 1 ELSE @,
            !.streamStartTime = NOTIME]

\* startUptimeTracking(): sets the start time, then stopUptimeTracking() (which
\* resets it), then setInterval
StartUptimeTracking(m, t) ==
  LET m1 == [m EXCEPT !.streamStartTime = t]
      m2 == StopUptimeTracking(m1)
  IN [m2 EXCEPT !.uptimeInterval = TRUE, !.timers = @ + 1]

\* process.kill('SIGTERM')
Kill(m, p) ==
  [m EXCEPT !.procs[p].state = IF @ = "running" THEN "killed" ELSE @]

RECURSIVE KillAll(_, _)
KillAll(m, S) ==
  IF S = {} THEN m
  ELSE LET p == CHOOSE x \in S : TRUE IN KillAll(Kill(m, p), S \ {p})

\* the pids registered in a registry (the non-mock entries)
Registered(reg) == {reg[k] : k \in {j \in Keys : reg[j] > 0}}

\* stopStream whose stop-all branch clears the registry without signalling
StopStreamNoSignal(m, streamKey) ==
  LET m1 ==
        IF streamKey /= NoKey
        THEN LET process == m.activeStreams[streamKey]
                 k == IF process /= NULL /\ process /= MOCK
                      THEN Kill(m, process) ELSE m
             IN [k EXCEPT !.activeStreams[streamKey] = NULL]
        ELSE [m EXCEPT !.activeStreams = [j \in Keys |-> NULL]]
  IN StopUptimeTracking(m1)

\* stopStream(streamKey = null); NoKey is the null that selects the stop-all
\* branch
StopStream(m, streamKey) ==
  LET m1 ==
        IF streamKey /= NoKey
        THEN LET process == m.activeStreams[streamKey]
                 k == IF process /= NULL /\ process /= MOCK
                      THEN Kill(m, process) ELSE m
             IN [k EXCEPT !.activeStreams[streamKey] = NULL]
        ELSE LET k == KillAll(m, Registered(m.activeStreams))
             IN [k EXCEPT !.activeStreams = [j \in Keys |-> NULL]]
  IN StopUptimeTracking(m1)

\* stopAllStreams()
StopAllStreams(m) == StopStream(m, NoKey)

\* isStreaming()
IsStreaming(reg) == \E k \in Keys : reg[k] /= NULL

\* formatUptime(milliseconds)
Pad2(n) == IF n < 10 THEN "0" \o ToString(n) ELSE ToString(n)
FormatUptime(milliseconds) ==
  LET seconds == milliseconds \div 1000
      hours == seconds \div 3600
      minutes == (seconds % 3600) \div 60
      secs == seconds % 60
  IN Pad2(hours) \o ":" \o Pad2(minutes) \o ":" \o Pad2(secs)

\* the updateData object of updateStreamStatus(status, videoId, additionalData)
UpdateData(status, videoId, additionalData) ==
  Spread(
    [status |-> status,
     current_video_id |-> videoId,
     started_at |-> IF status = "live" THEN SOMETIME ELSE NOTIME,
     viewer_count |-> IF "viewerCount" \in DOMAIN additionalData
                         /\ additionalData["viewerCount"] /= 0
                      THEN additionalData["viewerCount"] ELSE 0,
     uptime |-> IF "uptime" \in DOMAIN additionalData
                THEN additionalData["uptime"] ELSE "00:00:00",
     loop_playlist |-> IF "loopPlaylist" \in DOMAIN additionalData
                       THEN additionalData["loopPlaylist"] ELSE FALSE],
    additionalData)

\* updateStreamStatus: the statement is built from the keys of updateData; a
\* rejected statement is caught and logged
UpdateStreamStatus(row, status, videoId, additionalData) ==
  ExecUpdate(row, UpdateData(status, videoId, additionalData))

\* the property bags of the close and the error handler
OfflineData == [viewerCount |-> 0, uptime |-> "00:00:00", loopPlaylist |-> FALSE]
ErrorData ==
  [viewerCount |-> 0, uptime |-> "00:00:00", loopPlaylist |-> FALSE,
   errorMessage |-> "spawn ffmpeg ENOENT"]

\* a search that answers the first position for an item that is not there
FindIndexOrFirst(list, id) ==
  IF \E i \in 1..Len(list) : list[i] = id
  THEN (CHOOSE i \in 1..Len(list) :
          list[i] = id /\ \A j \in 1..(i - 1) : list[j] /= id) - 1
  ELSE 0

\* this.playlist.findIndex(v => v.id === currentVideoId), 0-based
FindIndex(list, id) ==
  IF \E i \in 1..Len(list) : list[i] = id
  THEN (CHOOSE i \in 1..Len(list) :
          list[i] = id /\ \A j \in 1..(i - 1) : list[j] /= id) - 1
  ELSE -1

\* the cursor advanced without the wrap-around
NextIndexNoWrap(index, length) ==
  IF index = NAN \/ length = 0 THEN NAN ELSE index + 1

\* (this.currentVideoIndex + 1) % this.playlist.length
NextIndex(index, length) ==
  IF index = NAN \/ length = 0 THEN NAN ELSE (index + 1) % length

\* this.playlist[index]; NULL stands for undefined
ItemAt(list, index) ==
  IF index >= 0 /\ index < Len(list) THEN list[index + 1] ELSE NULL

\* ------------------------------------------------------------------ tasks
\* An asynchronous call in flight: the handler it belongs to (route = the
\* start handler, next = playNextVideo, stop = the stop handler), the await it
\* is suspended at, the video id it is starting (videoId, nextVideo.id) and,
\* in playNextVideo, the currentVideoId it read.
Task(op, pc, vid, cur) == [op |-> op, pc |-> pc, vid |-> vid, cur |-> cur]

InFlight == BagToSet(tasks)
NoTasks == InFlight = {}
CanAwait == BagCardinality(tasks) < MaxTasks
Add(bag, t) == bag (+) SetToBag({t})
Remove(bag, t) == bag (-) SetToBag({t})
\* task t goes on as task u
Becomes(t, u) == Add(Remove(tasks, t), u)

\* a continuation queued as a microtask runs before any other event is taken
NoMicrotask == \A t \in InFlight : t.pc /= "stopped"

\* ------------------------------------------------------------------ calls
\* what the step just taken returned to its caller, or answered its client
Returned(call, arg, result) == [call |-> call, arg |-> arg, result |-> result]

NoCall == Returned("none", NULL, NULL)

\* the JavaScript value undefined where a string is expected
UNDEFINED == "undefined"

\* destination profiles: the fields of rtmpConfig that the engine reads
Platforms ==
  {"youtube", "YouTube", "twitch", "facebook", "custom", "vimeo", "", UNDEFINED}
CustomUrls == {"rtmp://example.org/live", "", UNDEFINED}
Resolutions ==
  {"1920x1080", "1080p", "1280x720", "720p", "854x480", "480p", "640x360",
   "360p", "original", "2160p", "", UNDEFINED}
\* bitrate (kbit/s) and framerate of a profile; NULL when the profile has none
Bitrates == {NULL, 4000}
Framerates == {NULL, 60}
Configs ==
  [platform : Platforms, rtmpUrl : CustomUrls, streamKey : {"abc"},
   resolution : Resolutions, bitrate : Bitrates, framerate : Framerates]

DefaultConfig ==
  [platform |-> "youtube", rtmpUrl |-> UNDEFINED, streamKey |-> "abc",
   resolution |-> "720p", bitrate |-> 4000, framerate |-> 60]

Init ==
  /\ activeStreams = [k \in Keys |-> NULL]
  /\ loopEnabled = FALSE
  /\ uptimeInterval = FALSE
  /\ timers = 0
  /\ streamStartTime = NOTIME
  /\ currentVideoIndex = 0
  /\ playlist = <<>>
  /\ procs = [p \in Pids |-> FreeProc]
  /\ tasks = EmptyBag
  /\ videos = Videos
  /\ files = Videos
  /\ playlistOrder = [id \in Videos |-> id]
  /\ activeConfig = FALSE
  /\ dbStatus = DefaultStatus
  /\ spawnAvailable \in BOOLEAN
  /\ now = 0
  /\ lastClose = NoClose
  /\ stopScn = FALSE
  /\ config = DefaultConfig
  /\ lastCall = NoCall

\* ------------------------------------------------- POST /api/stream/start
\* The handler reads the status row, the selected video and the active
\* profile, copies the persisted loop flag into the engine and calls
\* startStream, which runs up to its first query.
RouteStart ==
  /\ NoMicrotask
  /\ CanAwait
  /\ dbStatus.current_video_id /= NULL
  /\ dbStatus.current_video_id \in videos
  /\ activeConfig
  /\ loopEnabled' = dbStatus.loop_playlist
  /\ tasks' = Add(tasks, Task("route", "query", dbStatus.current_video_id, NULL))
  /\ stopScn' = FALSE
  /\ lastClose' = NoClose
  /\ lastCall' = NoCall
  /\ UNCHANGED <<activeStreams, uptimeInterval, timers, streamStartTime,
                 currentVideoIndex, playlist, procs, storeVars, dbStatus,
                 spawnAvailable, config, now>>

\* what the caller of startStream does with its result: the start handler
\* goes on to write status = live when it is true, playNextVideo ends
AfterStart(t, started) ==
  IF t.op = "route" /\ started
  THEN Becomes(t, [t EXCEPT !.pc = "live"])
  ELSE Remove(tasks, t)

\* startStream with the checks made after the prior session is stopped
StartStreamFailsAfterStop(t) ==
  /\ NoMicrotask
  /\ t.pc = "query"
  /\ t.vid \notin videos \/ t.vid \notin files
  /\ Commit(StopStream(Cur, StreamKey(t.vid)))
  /\ tasks' = AfterStart(t, FALSE)
  /\ lastClose' = NoClose
  /\ lastCall' = Returned("startStream", t.vid, FALSE)
  /\ UNCHANGED <<loopEnabled, currentVideoIndex, playlist, storeVars, dbStatus,
                 spawnAvailable, config, now, stopScn>>

\* startStream, from the answer of the video query to the next await.
\* The record or the file is missing: returns false.
StartStreamFails(t) ==
  /\ NoMicrotask
  /\ t.pc = "query"
  /\ t.vid \notin videos \/ t.vid \notin files
  /\ tasks' = AfterStart(t, FALSE)
  /\ lastClose' = NoClose
  /\ lastCall' = Returned("startStream", t.vid, FALSE)
  /\ UNCHANGED <<engineVars, procs, storeVars, dbStatus, spawnAvailable, config, now, stopScn>>

\* The prior session of the key is stopped, a process is spawned and
\* registered, uptime tracking starts, and the call awaits loadPlaylist.
StartStreamSpawn(t) ==
  /\ NoMicrotask
  /\ t.pc = "query"
  /\ t.vid \in videos /\ t.vid \in files
  /\ spawnAvailable
  /\ FreePids /= {}
  /\ now' = 0
  /\ LET streamKey == StreamKey(t.vid)
         has == activeStreams[streamKey] /= NULL
         m1 == IF has THEN StopStream(Cur, streamKey) ELSE Cur
         m2 == [m1 EXCEPT !.procs[FreePid] = NewProc(streamKey, loopEnabled, has),
                          !.activeStreams[streamKey] = FreePid,
                          !.streamStartTime = now']
     IN Commit(StartUptimeTracking(m2, now'))
  /\ tasks' = Becomes(t, [t EXCEPT !.pc = "load"])
  /\ lastClose' = NoClose
  /\ lastCall' = NoCall
  /\ UNCHANGED <<loopEnabled, currentVideoIndex, playlist, storeVars, dbStatus,
                 spawnAvailable, config, stopScn>>

\* Without a process runtime a mock is registered and the call returns true.
StartStreamMock(t) ==
  /\ NoMicrotask
  /\ t.pc = "query"
  /\ t.vid \in videos /\ t.vid \in files
  /\ ~spawnAvailable
  /\ now' = 0
  /\ LET streamKey == StreamKey(t.vid)
         has == activeStreams[streamKey] /= NULL
         m1 == IF has THEN StopStream(Cur, streamKey) ELSE Cur
         m2 == [m1 EXCEPT !.activeStreams[streamKey] = MOCK,
                          !.streamStartTime = now']
     IN Commit(StartUptimeTracking(m2, now'))
  /\ tasks' = AfterStart(t, TRUE)
  /\ lastClose' = NoClose
  /\ lastCall' = Returned("startStream", t.vid, TRUE)
  /\ UNCHANGED <<loopEnabled, currentVideoIndex, playlist, storeVars, dbStatus,
                 spawnAvailable, config, stopScn>>

\* loadPlaylist resolves and startStream returns true
StartStreamLoaded(t) ==
  /\ NoMicrotask
  /\ t.pc = "load"
  /\ playlist' \in SelectOrdered
  /\ tasks' = AfterStart(t, TRUE)
  /\ lastClose' = NoClose
  /\ lastCall' = Returned("startStream", t.vid, TRUE)
  /\ UNCHANGED <<activeStreams, loopEnabled, uptimeInterval, timers, streamStartTime,
                 currentVideoIndex, procs, storeVars, dbStatus, spawnAvailable, config,
                 now, stopScn>>

\* the start handler's UPDATE ... SET status = 'live', started_at = NOW()
RouteLive(t) ==
  /\ NoMicrotask
  /\ t.pc = "live"
  /\ dbStatus' = ExecUpdate(dbStatus,
                            [status |-> "live", started_at |-> SOMETIME])
  /\ tasks' = Remove(tasks, t)
  /\ lastClose' = NoClose
  /\ lastCall' = NoCall
  /\ UNCHANGED <<engineVars, procs, storeVars, spawnAvailable, config, now, stopScn>>

\* ------------------------------------------------------- process events
\* the test made on the loop flag as it was when the process was spawned
CloseHandsOffAtStart(p) == procs[p].loopAtStart

\* the test that sends an exit met with an empty snapshot to the offline
\* branch
CloseHandsOffNonEmpty(p) == loopEnabled /\ Len(playlist) /= 0

\* the close handler's test of this.loopEnabled
CloseHandsOff(p) == loopEnabled

\* playNextVideo up to its first await: it returns at once when the loop is
\* off or the snapshot is empty, otherwise it queries the status row
PlayNextStarts == loopEnabled /\ Len(playlist) /= 0

\* 'close' of process p: the entry under the handler's streamKey is deleted,
\* then either playNextVideo is called or the engine goes offline
ProcClose(p) ==
  /\ NoMicrotask
  /\ procs[p].key[1] = "video"
  /\ procs[p].state \in {"running", "killed", "errored"}
  /\ LET streamKey == procs[p].key
         m1 == [Cur EXCEPT !.activeStreams[streamKey] = NULL,
                           !.procs[p] = FreeProc]
     IN IF CloseHandsOff(p)
        THEN /\ Commit(m1)
             /\ IF PlayNextStarts
                THEN /\ CanAwait
                     /\ tasks' = Add(tasks, Task("next", "status", NULL, NULL))
                ELSE tasks' = tasks
             /\ dbStatus' = dbStatus
        ELSE /\ Commit(StopUptimeTracking(m1))
             /\ dbStatus' = UpdateStreamStatus(dbStatus, "offline", NULL,
                                               OfflineData)
             /\ tasks' = tasks
  /\ lastClose' = [seen |-> TRUE, loopAtStart |-> procs[p].loopAtStart,
                   handoff |-> CloseHandsOff(p)]
  /\ lastCall' = NoCall
  /\ UNCHANGED <<loopEnabled, currentVideoIndex, playlist, storeVars,
                 spawnAvailable, config, now, stopScn>>

\* 'error' of process p (spawn or kill failed); a 'close' may still follow
ProcError(p) ==
  /\ NoMicrotask
  /\ procs[p].key[1] = "video"
  /\ procs[p].state \in {"running", "killed"}
  /\ LET streamKey == procs[p].key
         m1 == [Cur EXCEPT !.activeStreams[streamKey] = NULL,
                           !.procs[p].state = "errored"]
     IN Commit(StopUptimeTracking(m1))
  /\ dbStatus' = UpdateStreamStatus(dbStatus, "error", NULL, ErrorData)
  /\ lastClose' = NoClose
  /\ lastCall' = NoCall
  /\ UNCHANGED <<loopEnabled, currentVideoIndex, playlist, tasks, storeVars,
                 spawnAvailable, config, now, stopScn>>

\* ----------------------------------------------------------- playNextVideo
\* the status row arrives: the cursor is set from the persisted current item
\* and advanced; with an item under the cursor the new reference is written
PlayNextResolve(t) ==
  /\ NoMicrotask
  /\ t.op = "next" /\ t.pc = "status"
  /\ LET currentVideoId == dbStatus.current_video_id
         found == IF currentVideoId /= NULL
                  THEN FindIndex(playlist, currentVideoId)
                  ELSE currentVideoIndex
         index == NextIndex(found, Len(playlist))
         nextVideo == ItemAt(playlist, index)
     IN /\ currentVideoIndex' = index
        /\ tasks' = IF nextVideo /= NULL
                    THEN Becomes(t, Task("next", "update", nextVideo, currentVideoId))
                    ELSE Remove(tasks, t)
  /\ lastClose' = NoClose
  /\ lastCall' = NoCall
  /\ UNCHANGED <<activeStreams, loopEnabled, uptimeInterval, timers, streamStartTime,
                 playlist, procs, storeVars, dbStatus, spawnAvailable, config, now, stopScn>>

\* UPDATE stream_status SET current_video_id, then the active profile is read
\* and, when there is one, startStream is called
PlayNextPersist(t) ==
  /\ NoMicrotask
  /\ t.op = "next" /\ t.pc = "update"
  /\ dbStatus' = ExecUpdate(dbStatus, [current_video_id |-> t.vid])
  /\ tasks' = IF activeConfig
              THEN Becomes(t, [t EXCEPT !.pc = "query"])
              ELSE Remove(tasks, t)
  /\ lastClose' = NoClose
  /\ lastCall' = NoCall
  /\ UNCHANGED <<engineVars, procs, storeVars, spawnAvailable, config, now, stopScn>>

\* -------------------------------------------------- POST /api/stream/stop
\* stopAllStreams() runs to its end; the handler's continuation is a microtask.
\* room: the request can be added to the calls in flight
RouteStopAllWhen(room) ==
  /\ NoMicrotask
  /\ room
  /\ Commit(StopAllStreams(Cur))
  /\ tasks' = Add(tasks, Task("stop", "stopped", NULL, NULL))
  /\ stopScn' = (~loopEnabled /\ NoTasks /\ IsStreaming(activeStreams))
  /\ lastClose' = NoClose
  /\ lastCall' = NoCall
  /\ UNCHANGED <<loopEnabled, currentVideoIndex, playlist, storeVars, dbStatus,
                 spawnAvailable, config, now>>

RouteStopAll == RouteStopAllWhen(CanAwait)

\* setLoopEnabled(false), then the UPDATE is sent
RouteStopLoop(t) ==
  /\ t.pc = "stopped"
  /\ loopEnabled' = FALSE
  /\ tasks' = Becomes(t, [t EXCEPT !.pc = "offline"])
  /\ lastClose' = NoClose
  /\ lastCall' = NoCall
  /\ UNCHANGED <<activeStreams, uptimeInterval, timers, streamStartTime,
                 currentVideoIndex, playlist, procs, storeVars, dbStatus,
                 spawnAvailable, config, now, stopScn>>

\* UPDATE ... SET status = 'offline', current_video_id = NULL,
\* started_at = NULL, loop_playlist = false
RouteStopOffline(t) ==
  /\ NoMicrotask
  /\ t.pc = "offline"
  /\ dbStatus' = ExecUpdate(dbStatus,
                   [status |-> "offline", current_video_id |-> NULL,
                    started_at |-> NOTIME, loop_playlist |-> FALSE])
  /\ tasks' = Remove(tasks, t)
  /\ lastClose' = NoClose
  /\ lastCall' = NoCall
  /\ UNCHANGED <<engineVars, procs, storeVars, spawnAvailable, config, now, stopScn>>

\* ------------------------- POST /api/stream/loop/enable and .../loop/disable
RouteLoop(enabled) ==
  /\ NoMicrotask
  /\ loopEnabled /= enabled \/ dbStatus.loop_playlist /= enabled
  /\ dbStatus' = ExecUpdate(dbStatus, [loop_playlist |-> enabled])
  /\ loopEnabled' = enabled
  /\ stopScn' = FALSE
  /\ lastClose' = NoClose
  /\ lastCall' = NoCall
  /\ UNCHANGED <<activeStreams, uptimeInterval, timers, streamStartTime,
                 currentVideoIndex, playlist, procs, tasks, storeVars,
                 spawnAvailable, config, now>>

\* --------------------------------------------- POST /api/stream/set-current
RouteSetCurrent(videoId) ==
  /\ NoMicrotask
  /\ videoId \in videos
  /\ dbStatus.current_video_id /= videoId
  /\ dbStatus' = ExecUpdate(dbStatus, [current_video_id |-> videoId])
  /\ lastClose' = NoClose
  /\ lastCall' = NoCall
  /\ UNCHANGED <<engineVars, procs, tasks, storeVars, spawnAvailable, config, now, stopScn>>

\* ------------------------------------------------ DELETE /api/videos/:id
\* the file is unlinked, then the row is deleted
DeleteVideoFile(id) ==
  /\ NoMicrotask
  /\ Cardinality(Videos \ files) < MaxDeletes
  /\ id \in videos /\ id \in files
  /\ files' = files \ {id}
  /\ lastClose' = NoClose
  /\ lastCall' = NoCall
  /\ UNCHANGED <<engineVars, procs, tasks, videos, playlistOrder,
                 activeConfig, dbStatus,
                 spawnAvailable, config, now, stopScn>>

DeleteVideoRow(id) ==
  /\ NoMicrotask
  /\ id \in videos /\ id \notin files
  /\ videos' = videos \ {id}
  /\ lastClose' = NoClose
  /\ lastCall' = NoCall
  /\ UNCHANGED <<engineVars, procs, tasks, files, playlistOrder,
                 activeConfig, dbStatus,
                 spawnAvailable, config, now, stopScn>>

\* ------------------------------------------- POST /api/videos/reorder
\* one UPDATE videos SET playlist_order = $1 WHERE id = $2 of the request: the
\* handler sends one statement per element of its array, with the position
\* the client gave (updates) or the element's index + 1 (videoIds)
ReorderUpdate(id, order) ==
  /\ NoMicrotask
  /\ id \in videos
  /\ playlistOrder[id] /= order
  /\ playlistOrder' = [playlistOrder EXCEPT ![id] = order]
  /\ lastClose' = NoClose
  /\ lastCall' = NoCall
  /\ UNCHANGED <<engineVars, procs, tasks, videos, files, activeConfig,
                 dbStatus, spawnAvailable, config, now, stopScn>>

\* --------------------------------------------- POST /api/stream-config
\* the existing profiles are deactivated, then the new one is inserted active
ConfigDeactivate ==
  /\ NoMicrotask
  /\ activeConfig
  /\ activeConfig' = FALSE
  /\ lastClose' = NoClose
  /\ lastCall' = NoCall
  /\ UNCHANGED <<engineVars, procs, tasks, videos, files, playlistOrder,
                 dbStatus,
                 spawnAvailable, config, now, stopScn>>

ConfigInsert ==
  /\ NoMicrotask
  /\ ~activeConfig
  /\ activeConfig' = TRUE
  /\ lastClose' = NoClose
  /\ lastCall' = NoCall
  /\ UNCHANGED <<engineVars, procs, tasks, videos, files, playlistOrder,
                 dbStatus,
                 spawnAvailable, config, now, stopScn>>

\* ------------------------------------------------ diagnostic output
\* A chunk of the transcoder's stderr, as the sequence of the phrases in it.
Outputs ==
  {<<"frame=  100 fps= 30">>,
   <<"Stream mapping:", "Press [q] to stop">>,
   <<"Connection refused", "Network is unreachable">>,
   <<"403 Forbidden", "Invalid argument">>}

\* output.includes(phrase)
Includes(output, phrase) == \E i \in 1..Len(output) : output[i] = phrase

\* the messages the stderr handler logs for a chunk, beside the chunk itself
Classify(output) ==
  (IF Includes(output, "Stream mapping:")
      \/ Includes(output, "Press [q] to stop")
   THEN {"connected"} ELSE {})
  \cup (IF Includes(output, "Connection refused")
           \/ Includes(output, "No route to host")
        THEN {"connection error"} ELSE {})
  \cup (IF Includes(output, "401 Unauthorized")
           \/ Includes(output, "403 Forbidden")
           \/ Includes(output, "Invalid stream name")
        THEN {"authentication error"} ELSE {})
  \cup (IF Includes(output, "Network is unreachable")
           \/ Includes(output, "Connection timed out")
        THEN {"network error"} ELSE {})
  \cup (IF Includes(output, "Invalid argument")
           \/ Includes(output, "not known")
        THEN {"format error"} ELSE {})

\* a handler that stops the session when the chunk reports a connection error
ProcStderrStopsOnError(p, output) ==
  /\ NoMicrotask
  /\ procs[p].key[1] = "video"
  /\ procs[p].state \in {"running", "killed"}
  /\ IF "connection error" \in Classify(output)
     THEN Commit(StopStream(Cur, procs[p].key))
     ELSE UNCHANGED <<activeStreams, procs, uptimeInterval, timers, streamStartTime>>
  /\ lastClose' = NoClose
  /\ lastCall' = Returned("stderr", NULL, Classify(output))
  /\ UNCHANGED <<loopEnabled, currentVideoIndex, playlist, tasks, storeVars,
                 dbStatus, spawnAvailable, config, now, stopScn>>

\* 'data' of the stderr of process p: the chunk is logged and classified
ProcStderr(p, output) ==
  /\ NoMicrotask
  /\ procs[p].key[1] = "video"
  /\ procs[p].state \in {"running", "killed"}
  /\ lastClose' = NoClose
  /\ lastCall' = Returned("stderr", NULL, Classify(output))
  /\ UNCHANGED <<engineVars, procs, tasks, storeVars, dbStatus, spawnAvailable,
                 config, now, stopScn>>

\* ------------------------------------------------------ the reconciler
BaseViewers == 50
RandomRange == 100
\* Math.floor(Math.random() * 100), sampled at its ends and its middle
RandomDraws == {0, RandomRange \div 2, RandomRange - 1}

Max(a, b) == IF a >= b THEN a ELSE b

\* Math.max(0, baseViewers + randomVariation)
ViewerCount(draw) == Max(0, BaseViewers + (draw - 50))

\* the condition under which the interval callback does anything
TickActive == streamStartTime /= NOTIME /\ IsStreaming(activeStreams)

\* the setInterval callback of startUptimeTracking, one period after the
\* previous one
Tick ==
  /\ NoMicrotask
  /\ timers > 0
  /\ now' = IF now < MaxNow THEN now + 1 ELSE now
  /\ IF TickActive /\ dbStatus.status = "live"
     THEN \E draw \in RandomDraws :
            dbStatus' = ExecUpdate(dbStatus,
              [uptime |-> FormatUptime((now' - streamStartTime) * TickMs),
               viewer_count |-> ViewerCount(draw)])
     ELSE dbStatus' = dbStatus
  /\ lastClose' = NoClose
  /\ lastCall' = NoCall
  /\ UNCHANGED <<engineVars, procs, tasks, storeVars, spawnAvailable, config, stopScn>>

\* ------------------------------------------------ POST /api/stream/restart
\* row.name of a row object: undefined (NULL) for a name that is no column
RowField(row, name) == IF name \in DOMAIN row THEN row[name] ELSE NULL

\* The handler reads streamStatus?.currentVideoId and answers 400 when it is
\* falsy; otherwise it stops all streams and goes on after the await.
RouteRestart ==
  /\ NoMicrotask
  /\ IF RowField(dbStatus, "currentVideoId") = NULL
     THEN /\ lastCall' = Returned("restart", NULL, 400)
          /\ UNCHANGED <<activeStreams, uptimeInterval, timers, streamStartTime, procs,
                         tasks>>
     ELSE /\ CanAwait
          /\ Commit(StopAllStreams(Cur))
          /\ tasks' = Add(tasks, Task("restart", "stopped",
                                      dbStatus.current_video_id, NULL))
          /\ lastCall' = NoCall
  /\ lastClose' = NoClose
  /\ UNCHANGED <<loopEnabled, currentVideoIndex, playlist, storeVars, dbStatus,
                 spawnAvailable, config, now, stopScn>>

\* UPDATE ... SET status = 'offline', started_at = NULL, then setTimeout
RestartOffline(t) ==
  /\ t.op = "restart" /\ t.pc = "stopped"
  /\ dbStatus' = ExecUpdate(dbStatus,
                            [status |-> "offline", started_at |-> NOTIME])
  /\ tasks' = Becomes(t, [t EXCEPT !.pc = "delay"])
  /\ lastClose' = NoClose
  /\ lastCall' = Returned("restart", NULL, 200)
  /\ UNCHANGED <<engineVars, procs, storeVars, spawnAvailable, config, now,
                 stopScn>>

\* the timeout fires: with an active profile startStream is called, and
\* status = live is written when it returns true, as in the start handler
RestartRelaunch(t) ==
  /\ NoMicrotask
  /\ t.op = "restart" /\ t.pc = "delay"
  /\ tasks' = IF activeConfig
              THEN Becomes(t, Task("route", "query", t.vid, NULL))
              ELSE Remove(tasks, t)
  /\ lastClose' = NoClose
  /\ lastCall' = NoCall
  /\ UNCHANGED <<engineVars, procs, storeVars, dbStatus, spawnAvailable,
                 config, now, stopScn>>

\* --------------------------------------------- the destination and the scale
\* String.prototype.toLowerCase on the identifiers of Platforms
ToLowerCase(str) == IF str = "YouTube" THEN "youtube" ELSE str

\* a || b for strings: b when a is undefined or empty
OrElse(a, b) == IF a = UNDEFINED \/ a = "" THEN b ELSE a

YouTubeUrl == "rtmp://a.rtmp.youtube.com/live2"
TwitchUrl == "rtmp://live.twitch.tv/app"
FacebookUrl == "rtmps://live-api-s.facebook.com:443/rtmp"
LocalUrl == "rtmp://localhost:1935/live"

\* getPlatformRTMPUrl(platform, customUrl)
GetPlatformRTMPUrl(platform, customUrl) ==
  LET p == IF platform = UNDEFINED THEN UNDEFINED ELSE ToLowerCase(platform)
  IN CASE p = "youtube" -> YouTubeUrl
       [] p = "twitch" -> TwitchUrl
       [] p = "facebook" -> FacebookUrl
       [] p = "custom" -> OrElse(customUrl, LocalUrl)
       [] OTHER -> OrElse(customUrl, YouTubeUrl)

\* `${rtmpUrl}/${config.streamKey}` of startStream
FullRtmpUrl(cfg) ==
  GetPlatformRTMPUrl(cfg.platform, cfg.rtmpUrl) \o "/" \o cfg.streamKey

\* getResolutionHeight with the case '854x480' left out
GetResolutionHeightNo854(resolution) ==
  CASE resolution \in {"1920x1080", "1080p"} -> 1080
    [] resolution \in {"1280x720", "720p"} -> 720
    [] resolution \in {"480p"} -> 480
    [] resolution \in {"640x360", "360p"} -> 360
    [] OTHER -> 720

\* getResolutionHeight(resolution)
GetResolutionHeight(resolution) ==
  CASE resolution \in {"1920x1080", "1080p"} -> 1080
    [] resolution \in {"1280x720", "720p"} -> 720
    [] resolution \in {"854x480", "480p"} -> 480
    [] resolution \in {"640x360", "360p"} -> 360
    [] OTHER -> 720

\* a string in a condition: undefined and the empty string are falsy
Truthy(str) == str /= UNDEFINED /\ str /= ""

\* n || d for numbers
OrDefault(n, d) == IF n = NULL THEN d ELSE n

DefaultBitrate == 2500
DefaultFramerate == 30

\* buildFFmpegArgs(inputPath, outputUrl, config): the argument list
BuildFFmpegArgs(inputPath, outputUrl, cfg) ==
  LET bitrate == OrDefault(cfg.bitrate, DefaultBitrate)
      framerate == OrDefault(cfg.framerate, DefaultFramerate)
      video ==
        <<"-stream_loop", "-1", "-re", "-i", inputPath, "-c:v", "libx264",
          "-preset", "veryfast", "-tune", "zerolatency", "-pix_fmt", "yuv420p",
          "-b:v", ToString(bitrate) \o "k",
          "-maxrate", ToString(bitrate) \o "k",
          "-bufsize", ToString(bitrate * 2) \o "k",
          "-r", ToString(framerate),
          "-g", ToString(framerate * 2)>>
      scale ==
        IF Truthy(cfg.resolution) /\ cfg.resolution /= "original"
        THEN <<"-vf",
               "scale=-2:" \o ToString(GetResolutionHeight(cfg.resolution))>>
        ELSE <<>>
      audio ==
        <<"-c:a", "aac", "-b:a", "128k", "-ar", "44100", "-ac", "2",
          "-f", "flv", "-reconnect", "1", "-reconnect_streamed", "1",
          "-reconnect_delay_max", "5", outputUrl>>
  IN video \o scale \o audio

\* path.join(__dirname, 'uploads', video.filename)
VideoPath(videoId) == "uploads/video" \o ToString(videoId) \o ".mp4"

\* startStream resolves the destination of its profile
CallDestination ==
  /\ lastCall' = Returned("getPlatformRTMPUrl", NULL, FullRtmpUrl(config))
  /\ UNCHANGED <<engineVars, procs, tasks, storeVars, dbStatus, spawnAvailable,
                 config, now, lastClose, stopScn>>

\* buildFFmpegArgs asks for the scale height of its profile
CallGetResolutionHeight ==
  /\ lastCall' = Returned("getResolutionHeight", NULL,
                          GetResolutionHeight(config.resolution))
  /\ UNCHANGED <<engineVars, procs, tasks, storeVars, dbStatus, spawnAvailable,
                 config, now, lastClose, stopScn>>

\* startStream builds the argument list of the transcoder for its profile
CallBuildFFmpegArgs ==
  /\ \E videoId \in Videos :
       lastCall' = Returned("buildFFmpegArgs", videoId,
                            BuildFFmpegArgs(VideoPath(videoId),
                                            FullRtmpUrl(config), config))
  /\ UNCHANGED <<engineVars, procs, tasks, storeVars, dbStatus, spawnAvailable,
                 config, now, lastClose, stopScn>>

\* ------------------------------------------------ streamToMultiplePlatforms
\* `multistream_${videoId}`
MultiKey(videoId) == <<"multistream", videoId>>

\* the call, up to its query of the video record
MultiCall(videoId) ==
  /\ NoMicrotask
  /\ CanAwait
  /\ tasks' = Add(tasks, Task("multi", "record", videoId, NULL))
  /\ lastClose' = NoClose
  /\ lastCall' = NoCall
  /\ UNCHANGED <<engineVars, procs, storeVars, dbStatus, spawnAvailable,
                 config, now, stopScn>>

\* the record is missing: returns false
MultiFails(t) ==
  /\ NoMicrotask
  /\ t.op = "multi" /\ t.pc = "record"
  /\ t.vid \notin videos
  /\ tasks' = Remove(tasks, t)
  /\ lastClose' = NoClose
  /\ lastCall' = Returned("streamToMultiplePlatforms", t.vid, FALSE)
  /\ UNCHANGED <<engineVars, procs, storeVars, dbStatus, spawnAvailable,
                 config, now, stopScn>>

\* the prior session of the key is stopped, a process is spawned and
\* registered, and the call returns true
MultiSpawn(t) ==
  /\ NoMicrotask
  /\ t.op = "multi" /\ t.pc = "record"
  /\ t.vid \in videos
  /\ spawnAvailable
  /\ FreePids /= {}
  /\ LET streamKey == MultiKey(t.vid)
         has == activeStreams[streamKey] /= NULL
         m1 == IF has THEN StopStream(Cur, streamKey) ELSE Cur
     IN Commit([m1 EXCEPT !.procs[FreePid] = NewProc(streamKey, loopEnabled, has),
                          !.activeStreams[streamKey] = FreePid])
  /\ tasks' = Remove(tasks, t)
  /\ lastClose' = NoClose
  /\ lastCall' = Returned("streamToMultiplePlatforms", t.vid, TRUE)
  /\ UNCHANGED <<loopEnabled, currentVideoIndex, playlist, storeVars, dbStatus,
                 spawnAvailable, config, now, stopScn>>

\* without a process runtime a mock is registered
MultiMock(t) ==
  /\ NoMicrotask
  /\ t.op = "multi" /\ t.pc = "record"
  /\ t.vid \in videos
  /\ ~spawnAvailable
  /\ LET streamKey == MultiKey(t.vid)
         has == activeStreams[streamKey] /= NULL
         m1 == IF has THEN StopStream(Cur, streamKey) ELSE Cur
     IN Commit([m1 EXCEPT !.activeStreams[streamKey] = MOCK])
  /\ tasks' = Remove(tasks, t)
  /\ lastClose' = NoClose
  /\ lastCall' = Returned("streamToMultiplePlatforms", t.vid, TRUE)
  /\ UNCHANGED <<loopEnabled, currentVideoIndex, playlist, storeVars, dbStatus,
                 spawnAvailable, config, now, stopScn>>

\* 'close' of a multi-destination process: the entry under its key is deleted
MultiClose(p) ==
  /\ NoMicrotask
  /\ procs[p].key[1] = "multistream"
  /\ procs[p].state \in {"running", "killed", "errored"}
  /\ Commit([Cur EXCEPT !.activeStreams[procs[p].key] = NULL,
                        !.procs[p] = FreeProc])
  /\ lastClose' = NoClose
  /\ lastCall' = NoCall
  /\ UNCHANGED <<loopEnabled, currentVideoIndex, playlist, tasks, storeVars,
                 dbStatus, spawnAvailable, config, now, stopScn>>

\* 'error' of a multi-destination process; a 'close' may still follow
MultiError(p) ==
  /\ NoMicrotask
  /\ procs[p].key[1] = "multistream"
  /\ procs[p].state \in {"running", "killed"}
  /\ Commit([Cur EXCEPT !.activeStreams[procs[p].key] = NULL,
                        !.procs[p].state = "errored"])
  /\ lastClose' = NoClose
  /\ lastCall' = NoCall
  /\ UNCHANGED <<loopEnabled, currentVideoIndex, playlist, tasks, storeVars,
                 dbStatus, spawnAvailable, config, now, stopScn>>

Next ==
  \/ RouteStart
  \/ \E t \in InFlight : StartStreamSpawn(t)
  \/ \E t \in InFlight : StartStreamMock(t)
  \/ \E t \in InFlight : StartStreamLoaded(t)
  \/ \E t \in InFlight : RouteLive(t)
  \/ \E p \in Pids : ProcClose(p)
  \/ \E p \in Pids : ProcError(p)
  \/ \E t \in InFlight : PlayNextResolve(t)
  \/ \E t \in InFlight : PlayNextPersist(t)
  \/ RouteStopAll
  \/ \E t \in InFlight : RouteStopLoop(t)
  \/ \E t \in InFlight : RouteStopOffline(t)
  \/ \E enabled \in BOOLEAN : RouteLoop(enabled)
  \/ \E videoId \in Videos : RouteSetCurrent(videoId)
  \/ ConfigDeactivate
  \/ ConfigInsert
  \/ Tick

Spec == Init /\ [][Next]_vars

\* the same engine with videos being deleted while it runs; only then can
\* startStream find the record or the file missing
NextStore ==
  \/ Next
  \/ \E t \in InFlight : StartStreamFails(t)
  \/ \E id \in Videos : DeleteVideoFile(id)
  \/ \E id \in Videos : DeleteVideoRow(id)

SpecStore == Init /\ [][NextStore]_vars

\* the engine started and looping while the playlist is reordered; the
\* requests and events that neither read nor write the order are left out
NextOrder ==
  \/ \E id \in Videos, order \in 1..NumVideos : ReorderUpdate(id, order)
  \/ \E videoId \in Videos : RouteSetCurrent(videoId)
  \/ ConfigInsert
  \/ \E enabled \in BOOLEAN : RouteLoop(enabled)
  \/ RouteStart
  \/ \E t \in InFlight : StartStreamSpawn(t)
  \/ \E t \in InFlight : StartStreamMock(t)
  \/ \E t \in InFlight : StartStreamLoaded(t)
  \/ \E t \in InFlight : RouteLive(t)
  \/ \E p \in Pids : ProcClose(p)
  \/ \E t \in InFlight : PlayNextResolve(t)
  \/ \E t \in InFlight : PlayNextPersist(t)

SpecOrder == Init /\ [][NextOrder]_vars

\* the engine started, looping and stopped while its processes write
\* diagnostic output
NextOutput ==
  \/ \E p \in Pids, output \in Outputs : ProcStderr(p, output)
  \/ \E videoId \in Videos : RouteSetCurrent(videoId)
  \/ ConfigInsert
  \/ \E enabled \in BOOLEAN : RouteLoop(enabled)
  \/ RouteStart
  \/ \E t \in InFlight : StartStreamSpawn(t)
  \/ \E t \in InFlight : StartStreamLoaded(t)
  \/ \E t \in InFlight : RouteLive(t)
  \/ \E p \in Pids : ProcClose(p)
  \/ \E p \in Pids : ProcError(p)
  \/ \E t \in InFlight : PlayNextResolve(t)
  \/ \E t \in InFlight : PlayNextPersist(t)
  \/ RouteStopAll
  \/ \E t \in InFlight : RouteStopLoop(t)
  \/ \E t \in InFlight : RouteStopOffline(t)

SpecOutput == Init /\ [][NextOutput]_vars

\* the stop request taken while another call is in flight
RouteStopAllDuringCall == RouteStopAllWhen(BagCardinality(tasks) < MaxTasks + 1)

\* the engine started and looping, with stop requests that arrive while a
\* start or a handoff awaits the database
NextStop ==
  \/ RouteStopAllDuringCall
  \/ \E t \in InFlight : RouteStopLoop(t)
  \/ \E t \in InFlight : RouteStopOffline(t)
  \/ \E videoId \in Videos : RouteSetCurrent(videoId)
  \/ ConfigInsert
  \/ \E enabled \in BOOLEAN : RouteLoop(enabled)
  \/ RouteStart
  \/ \E t \in InFlight : StartStreamSpawn(t)
  \/ \E t \in InFlight : StartStreamMock(t)
  \/ \E t \in InFlight : StartStreamLoaded(t)
  \/ \E t \in InFlight : RouteLive(t)
  \/ \E p \in Pids : ProcClose(p)
  \/ \E t \in InFlight : PlayNextResolve(t)
  \/ \E t \in InFlight : PlayNextPersist(t)

SpecStop == Init /\ [][NextStop]_vars

\* the engine with the restart request as well; the request changes nothing
\* of the engine, so the other specifications leave it out
NextRoutes ==
  \/ Next
  \/ RouteRestart

SpecRoutes == Init /\ [][NextRoutes]_vars

\* the engine driven through streamToMultiplePlatforms as well
NextMulti ==
  \/ Next
  \/ \E videoId \in Videos : MultiCall(videoId)
  \/ \E t \in InFlight : MultiSpawn(t)
  \/ \E t \in InFlight : MultiMock(t)
  \/ \E p \in Pids : MultiClose(p)
  \/ \E p \in Pids : MultiError(p)

SpecMulti == Init /\ [][NextMulti]_vars

\* the engine constructed over a database that an earlier run of the server
\* left behind: initializeDatabase inserts the default row only into an empty
\* table, so the persisted loop flag is whatever that run last wrote
InitRestart ==
  /\ activeStreams = [k \in Keys |-> NULL]
  /\ loopEnabled = FALSE
  /\ uptimeInterval = FALSE
  /\ timers = 0
  /\ streamStartTime = NOTIME
  /\ currentVideoIndex = 0
  /\ playlist = <<>>
  /\ procs = [p \in Pids |-> FreeProc]
  /\ tasks = EmptyBag
  /\ videos = Videos
  /\ files = Videos
  /\ playlistOrder = [id \in Videos |-> id]
  /\ activeConfig = FALSE
  /\ \E loop \in BOOLEAN :
       dbStatus = [DefaultStatus EXCEPT !.loop_playlist = loop]
  /\ spawnAvailable \in BOOLEAN
  /\ now = 0
  /\ lastClose = NoClose
  /\ stopScn = FALSE
  /\ config = DefaultConfig
  /\ lastCall = NoCall

SpecRestart == InitRestart /\ [][Next]_vars

\* the two table functions applied to every profile of Configs
InitArgs ==
  /\ activeStreams = [k \in Keys |-> NULL]
  /\ loopEnabled = FALSE
  /\ uptimeInterval = FALSE
  /\ timers = 0
  /\ streamStartTime = NOTIME
  /\ currentVideoIndex = 0
  /\ playlist = <<>>
  /\ procs = [p \in Pids |-> FreeProc]
  /\ tasks = EmptyBag
  /\ videos = Videos
  /\ files = Videos
  /\ playlistOrder = [id \in Videos |-> id]
  /\ activeConfig = TRUE
  /\ dbStatus = DefaultStatus
  /\ spawnAvailable = TRUE
  /\ now = 0
  /\ lastClose = NoClose
  /\ stopScn = FALSE
  /\ config \in Configs
  /\ lastCall = NoCall

NextArgs ==
  \/ CallDestination
  \/ CallGetResolutionHeight
  \/ CallBuildFFmpegArgs

SpecArgs == InitArgs /\ [][NextArgs]_vars

\* =================================================================== claims
\* the live (spawned, not yet exited) processes whose session key is key
LiveFor(key) == {q \in Pids : Alive(q) /\ procs[q].key = key}

\* no call is in flight and no signalled process still owes its exit event
Quiescent == NoTasks /\ \A p \in Pids : procs[p].state /= "killed"

\* the item after id in list, wrapping from the last to the first
Successor(list, id) ==
  LET i == CHOOSE j \in 1..Len(list) : list[j] = id
  IN IF i = Len(list) THEN list[1] ELSE list[i + 1]

\* the item playNextVideo goes to from id, as it computes it
Advance(list, id) == ItemAt(list, NextIndex(FindIndex(list, id), Len(list)))

RECURSIVE Orbit(_, _, _)
\* the n items reached by n advances from id
Orbit(list, id, n) ==
  IF n = 0 THEN <<>>
  ELSE LET nxt == Advance(list, id) IN <<nxt>> \o Orbit(list, nxt, n - 1)

Items(list) == {list[i] : i \in 1..Len(list)}

\* C1: a session's registry entry is removed only by its own process's exit
\* or error event or by a stop: the exit or error event of a process whose key
\* is by now registered to a successor leaves that entry in place, starts no
\* playlist advance and does not cancel the uptime timer.
C1_StaleExitLeavesSuccessor ==
  [][\A p \in Pids :
       ((ProcClose(p) \/ ProcError(p))
          /\ activeStreams[procs[p].key] /= NULL
          /\ activeStreams[procs[p].key] /= p)
       => /\ activeStreams'[procs[p].key] = activeStreams[procs[p].key]
          /\ tasks' = tasks
          /\ uptimeInterval' = uptimeInterval]_vars

\* C2: once a startStream that replaced a session of the item has completed
\* and every pending exit event has been delivered, the process it spawned is
\* the only live process of that item.
C2_OneProcessAfterRestart ==
  Quiescent =>
    \A p \in Pids :
      (Alive(p) /\ procs[p].replaced) => LiveFor(procs[p].key) = {p}

\* C3: when startStream returns true, isStreaming() is true and the registry
\* has an entry under the item's session key.
C3_StartedImpliesStreaming ==
  [][\A t \in InFlight :
       (StartStreamLoaded(t) \/ StartStreamMock(t))
       => /\ IsStreaming(activeStreams')
          /\ activeStreams'[StreamKey(t.vid)] /= NULL]_vars

\* one handoff, step by step: with the snapshot equal to the stored playlist
\* and the current item in it, the item chosen is the one after it in playlist
\* order, wrapping from the last to the first; the reference persisted is
\* that item; with an active profile a start for that item follows, and the
\* start registers a session under that item's key
C4_Step ==
  /\ \A t \in InFlight :
       (PlayNextResolve(t)
          /\ playlist = OrderedVideos
          /\ dbStatus.current_video_id \in Items(playlist))
       => Task("next", "update",
               Successor(playlist, dbStatus.current_video_id),
               dbStatus.current_video_id) \in BagToSet(tasks')
  /\ \A t \in InFlight :
       PlayNextPersist(t)
       => /\ dbStatus'.current_video_id = t.vid
          /\ activeConfig => [t EXCEPT !.pc = "query"] \in BagToSet(tasks')
  /\ \A t \in InFlight :
       (t.op = "next" /\ (StartStreamSpawn(t) \/ StartStreamMock(t)))
       => /\ activeStreams'[StreamKey(t.vid)] /= NULL
          /\ activeStreams'[StreamKey(t.vid)] /= MOCK
               => procs'[activeStreams'[StreamKey(t.vid)]].key = StreamKey(t.vid)

\* from any item of a snapshot of N items, N advances pass through every item
\* once, each to its successor, and end at the item they began with
C4_Cycle ==
  \A id \in Items(playlist) :
    LET N == Len(playlist)
        o == Orbit(playlist, id, N)
    IN /\ o[N] = id
       /\ Items(o) = Items(playlist)
       /\ \A i \in 1..N : o[i] = Successor(playlist, IF i = 1 THEN id ELSE o[i - 1])

\* C4: with the loop on, an active profile and a stable playlist of N items,
\* each process-end handoff moves the persisted current item to the next one
\* in playlist order (the last wraps to the first) and starts a session for
\* it, so N handoffs visit all N items once and return to the first one.
C4_LoopAdvancesCyclically == []C4_Cycle /\ [][C4_Step]_vars

\* a handoff that went from the last item of the full playlist to the first
\* and has started the session of the first
C4_Witness ==
  \E t \in InFlight :
    /\ t.op = "next" /\ t.pc = "load"
    /\ Len(playlist) = NumVideos /\ NumVideos > 1
    /\ t.cur = playlist[Len(playlist)] /\ t.vid = playlist[1]
    /\ dbStatus.current_video_id = t.vid
    /\ activeStreams[StreamKey(t.vid)] /= NULL

\* C5: with loop disabled, a process exit removes the session, cancels the
\* uptime timer and leaves the status row offline with the current item
\* cleared, no viewers and uptime 00:00:00.
C5_ExitGoesOffline ==
  [][\A p \in Pids :
       (ProcClose(p) /\ ~loopEnabled)
       => /\ activeStreams'[procs[p].key] = NULL
          /\ ~uptimeInterval'
          /\ dbStatus'.status = "offline"
          /\ dbStatus'.current_video_id = NULL
          /\ dbStatus'.viewer_count = 0
          /\ dbStatus'.uptime = "00:00:00"]_vars

\* C6: whether a process exit hands off to playNextVideo is decided by the
\* loop flag as it is when the exit is handled: with the flag set the handler
\* calls playNextVideo (which queries the status row when the snapshot is not
\* empty) and leaves the uptime timer alone; with the flag clear it starts no
\* advance and cancels the timer.
C6_ExitUsesCurrentLoopFlag ==
  [][\A p \in Pids :
       ProcClose(p)
       => /\ lastClose'.handoff = loopEnabled
          /\ loopEnabled
               => /\ uptimeInterval' = uptimeInterval
                  /\ Len(playlist) /= 0
                       => tasks' = Add(tasks, Task("next", "status", NULL, NULL))
          /\ ~loopEnabled => (tasks' = tasks /\ ~uptimeInterval')]_vars

\* the exit of a process spawned with the loop on was handled with the loop
\* off: no hand-off
C6_Witness ==
  lastClose.seen /\ lastClose.loopAtStart /\ ~lastClose.handoff

\* C7: a process error event leaves the status row at error, whatever the
\* loop flag, removes the session and cancels the uptime timer.
C7_ErrorGoesToErrorStatus ==
  [][\A p \in Pids :
       ProcError(p)
       => /\ dbStatus'.status = "error"
          /\ activeStreams'[procs[p].key] = NULL
          /\ ~uptimeInterval']_vars

\* C8: a tick taken while a session is registered and the status row is live
\* writes the time elapsed since the session was registered, as HH:MM:SS, and
\* a viewer count >= 0; a tick taken while the row is not live writes nothing.
C8_TickWritesUptime ==
  [][Tick =>
       IF dbStatus.status = "live"
       THEN (IsStreaming(activeStreams) /\ now < MaxNow)
              => /\ dbStatus'.uptime = FormatUptime(now' * TickMs)
                 /\ dbStatus'.viewer_count >= 0
       ELSE dbStatus' = dbStatus]_vars

\* after the stop request of a streaming engine with the loop off has
\* completed and the exit events of the signalled processes have been
\* delivered, the registry is empty and the row is offline, uptime 00:00:00
C9_Settled ==
  (stopScn /\ Quiescent)
    => /\ ~IsStreaming(activeStreams)
       /\ dbStatus.status = "offline"
       /\ dbStatus.uptime = "00:00:00"

\* C9: a stop-all with the loop off signals every registered process, and
\* after the exit events the registry is empty and the row is offline with
\* uptime 00:00:00.
C9_StopAllSettles ==
  /\ []C9_Settled
  /\ [][RouteStopAll
          => \A p \in Registered(activeStreams) : procs'[p].state = "killed"]_vars

\* the exit event of a process signalled by the stop request has just been
\* delivered, after the request completed
C9_Witness ==
  stopScn /\ Quiescent /\ lastClose.seen /\ dbStatus.status = "offline"

\* C10: stopAllStreams() on an empty registry changes nothing (registry, loop
\* flag, cursor, snapshot, uptime timer, status row), and a second call
\* changes nothing more.
C10_StopAllOnEmptyIsNoOp ==
  [][(RouteStopAll /\ ~IsStreaming(activeStreams))
       => /\ UNCHANGED <<activeStreams, loopEnabled, currentVideoIndex,
                         playlist, uptimeInterval, streamStartTime, dbStatus>>
          /\ StopAllStreams(StopAllStreams(Cur)) = StopAllStreams(Cur)]_vars

\* the primary sessions: the registry keys video_<id> that have an entry
PrimarySessions == {k \in Keys : k[1] = "video" /\ activeStreams[k] /= NULL}

\* C11: stopStream(key) for a key that has no registry entry changes nothing:
\* the other entries, the processes and the uptime timer stay as they are.
C11_StopUnknownIsNoOp ==
  \A k \in Keys : activeStreams[k] = NULL => StopStream(Cur, k) = Cur

\* C13: at every instant at most one process that was spawned and has not
\* yet exited exists per item, signalled processes included.
C13_AtMostOneProcessPerItem ==
  \A k \in Keys : Cardinality(LiveFor(k)) <= 1

\* C14: at most one primary session (key video_<id>) is registered at any
\* time, whatever the starts, restarts, exits and advances.
C14_OnePrimarySession == Cardinality(PrimarySessions) <= 1

\* C20: whenever the registry holds a session and no call is in flight, the
\* reconciler interval is scheduled.
C20_TickWhileSessions ==
  (IsStreaming(activeStreams) /\ NoTasks) => uptimeInterval

\* C12: startStream for an item whose record or file is missing returns
\* false and changes nothing: registry, processes, uptime timer, snapshot
\* and status row are as before.
C12_FailedStartChangesNothing ==
  [][\A t \in InFlight :
       StartStreamFails(t)
       => /\ lastCall'.call = "startStream" /\ lastCall'.result = FALSE
          /\ UNCHANGED <<activeStreams, procs, uptimeInterval, streamStartTime,
                         playlist, dbStatus>>]_vars

\* startStream has just returned false for an item that has a session
C12_Witness ==
  /\ lastCall.call = "startStream"
  /\ lastCall.result = FALSE
  /\ activeStreams[StreamKey(lastCall.arg)] /= NULL
  /\ uptimeInterval

\* a step of a multi-destination session: its start, restart, exit or error
MultiStep ==
  \/ \E t \in InFlight : MultiSpawn(t) \/ MultiMock(t)
  \/ \E p \in Pids : MultiClose(p) \/ MultiError(p)

\* C15: a multi-destination session lives under its own key multistream_<id>,
\* and its start, restart, exit and error leave every primary entry, every
\* primary process and the uptime timer as they are.
C15_MultiLeavesPrimaryAlone ==
  [][MultiStep
       => /\ \A id \in Videos :
               activeStreams'[StreamKey(id)] = activeStreams[StreamKey(id)]
          /\ \A p \in Pids :
               procs[p].key[1] = "video" => procs'[p] = procs[p]
          /\ uptimeInterval' = uptimeInterval]_vars

\* C16: the in-memory loop flag is false at construction and afterwards
\* changes only in a loop enable/disable request or in the stop request; no
\* start request, process event, playlist advance or tick changes it.
C16_LoopFlagChangesOnlyOnRequest ==
  /\ loopEnabled = FALSE
  /\ [][loopEnabled' /= loopEnabled
         => \/ \E enabled \in BOOLEAN : RouteLoop(enabled)
            \/ \E t \in InFlight : RouteStopLoop(t)]_vars

\* C17: a restart request made while an item is selected stops all sessions
\* and schedules the relaunch of the selected item.
C17_RestartStopsAndSchedules ==
  [][(RouteRestart /\ dbStatus.current_video_id /= NULL)
       => /\ ~IsStreaming(activeStreams')
          /\ \E t \in BagToSet(tasks') : t.op = "restart"]_vars

\* C18: getResolutionHeight maps 1920x1080 and 1080p to 1080, 1280x720 and
\* 720p to 720, 854x480 and 480p to 480, 640x360 and 360p to 360, and
\* every other input to 720.
C18_ResolutionTable ==
  lastCall.call = "getResolutionHeight"
    => LET r == config.resolution
           h == lastCall.result
       IN /\ r \in {"1920x1080", "1080p"} => h = 1080
          /\ r \in {"1280x720", "720p"} => h = 720
          /\ r \in {"854x480", "480p"} => h = 480
          /\ r \in {"640x360", "360p"} => h = 360
          /\ r \notin {"1920x1080", "1080p", "1280x720", "720p", "854x480",
                        "480p", "640x360", "360p"} => h = 720

\* the height of 854x480 has been asked for and is 480
C18_Witness ==
  /\ lastCall.call = "getResolutionHeight"
  /\ config.resolution = "854x480"
  /\ lastCall.result = 480

\* C19: the destination is the platform's endpoint joined with the stream
\* key: the fixed endpoints for youtube, twitch and facebook, the profile's
\* URL for custom, and the youtube endpoint for every other or missing
\* platform, whatever the profile's URL is.
C19_DestinationTable ==
  lastCall.call = "getPlatformRTMPUrl"
    => LET p == IF config.platform = UNDEFINED THEN UNDEFINED
                ELSE ToLowerCase(config.platform)
           join(url) == url \o "/" \o config.streamKey
           d == lastCall.result
       IN /\ p = "youtube" => d = join(YouTubeUrl)
          /\ p = "twitch" => d = join(TwitchUrl)
          /\ p = "facebook" => d = join(FacebookUrl)
          /\ (p = "custom" /\ config.rtmpUrl \notin {UNDEFINED, ""})
               => d = join(config.rtmpUrl)
          /\ p \notin {"youtube", "twitch", "facebook", "custom"}
               => d = join(YouTubeUrl)

\* C21: whenever the registry is empty and no call is in flight (no start,
\* stop or playlist advance is under way), the reconciler interval is cleared
\* and the start time is null.
C21_TickCancelledWhenEmpty ==
  (~IsStreaming(activeStreams) /\ NoTasks)
    => (~uptimeInterval /\ streamStartTime = NOTIME)

\* nothing is left that can start a session without a request: sessions are
\* started by calls, and a call is made by a start request or by the exit
\* event of a process
AtRest == NoTasks /\ \A p \in Pids : procs[p].state = "free"

\* C22: a handoff that finds no active profile writes the new current-item
\* reference and ends there: no startStream call, no change of the registry
\* or the processes, no error; and the engine is then at rest, so that no
\* session starts before the next start request.
C22_NoProfileHandoffEnds ==
  [][\A t \in InFlight :
       (PlayNextPersist(t) /\ ~activeConfig)
       => /\ dbStatus'.current_video_id = t.vid
          /\ tasks' = Remove(tasks, t)
          /\ UNCHANGED <<activeStreams, procs, uptimeInterval>>
          /\ AtRest']_vars

\* C23: a handoff made with an empty snapshot does nothing: beyond the close
\* handler's own removal of the exited session, the cursor, the status row,
\* the snapshot, the registry, the uptime timer and the calls in flight are
\* as before, so no session is started.
C23_EmptySnapshotHandoffIsNoOp ==
  [][\A p \in Pids :
       (ProcClose(p) /\ loopEnabled /\ Len(playlist) = 0)
       => /\ UNCHANGED <<currentVideoIndex, dbStatus, playlist, tasks,
                         uptimeInterval, streamStartTime>>
          /\ activeStreams' = [activeStreams EXCEPT ![procs[p].key] = NULL]
          /\ procs' = [procs EXCEPT ![p] = FreeProc]]_vars

\* an exit has just been handed off with the snapshot empty
C23_Witness ==
  /\ lastClose.seen /\ lastClose.handoff
  /\ Len(playlist) = 0
  /\ \A t \in InFlight : t.op /= "next"

\* for every item that is not in the snapshot (a deleted one, or one uploaded
\* after the snapshot was read) the advance computes index 0, the first item
C24_AbsentGoesToFirst ==
  \A id \in 1..(NumVideos + 1) :
    (Len(playlist) > 0 /\ id \notin Items(playlist))
      => /\ NextIndex(FindIndex(playlist, id), Len(playlist)) = 0
         /\ Advance(playlist, id) = playlist[1]

\* a handoff that reads a current item missing from the snapshot sets the
\* cursor to 0 and goes on with the first item; the session it then starts is
\* registered under the first item's key
C24_Step ==
  /\ \A t \in InFlight :
       (PlayNextResolve(t)
          /\ dbStatus.current_video_id /= NULL
          /\ dbStatus.current_video_id \notin Items(playlist))
       => /\ currentVideoIndex' = 0
          /\ tasks' = Becomes(t, Task("next", "update", playlist[1],
                                      dbStatus.current_video_id))
  /\ \A t \in InFlight :
       (t.op = "next" /\ t.cur /= NULL /\ t.cur \notin Items(playlist)
          /\ (StartStreamSpawn(t) \/ StartStreamMock(t)))
       => /\ t.vid = playlist[1]
          /\ currentVideoIndex = 0
          /\ activeStreams'[StreamKey(playlist[1])] /= NULL

\* C24: a handoff whose persisted current item is not in the snapshot does
\* not fail: the cursor ends at index 0 and the session started is the one of
\* the first item of the snapshot.
C24_MissingCurrentRestartsAtFirst ==
  []C24_AbsentGoesToFirst /\ [][C24_Step]_vars

\* the current item was deleted while its session started; the handoff after
\* its exit has started the session of the first item of the snapshot
C24_Witness ==
  \E t \in InFlight :
    /\ t.op = "next" /\ t.pc = "load"
    /\ t.cur /= NULL /\ t.cur \notin Items(playlist) /\ t.cur \notin videos
    /\ t.vid = playlist[1]
    /\ currentVideoIndex = 0
    /\ activeStreams[StreamKey(t.vid)] /= NULL

\* when startStream has returned true the snapshot is the ordered content of
\* the videos table as that call read it
C25_ReadAtStart ==
  (lastCall.call = "startStream" /\ lastCall.result = TRUE)
    => playlist = OrderedVideos

\* the exit of the registered process of a session is handled after the
\* start of that session has read the snapshot
C25_ExitAfterRead ==
  \A p \in Pids :
    (ProcClose(p) /\ activeStreams[procs[p].key] = p)
    => ~\E t \in InFlight : t.pc = "load" /\ StreamKey(t.vid) = procs[p].key

\* C25: the snapshot is refreshed on every session start: when startStream
\* returns true, from the real or the mock path, the snapshot is the ordered
\* videos table as read during that start, and an exit event of that session
\* is handled with a snapshot at least as fresh.
C25_SnapshotFreshAfterStart ==
  []C25_ReadAtStart /\ [][C25_ExitAfterRead]_vars

\* the exit or error handler of p runs and its status write is rejected
C26_WriteFails(p) ==
  \/ /\ ProcClose(p) /\ ~loopEnabled
     /\ ~UpdateAccepted(UpdateData("offline", NULL, OfflineData))
  \/ /\ ProcError(p)
     /\ ~UpdateAccepted(UpdateData("error", NULL, ErrorData))

\* C26: when the status write of the exit or error handler fails, the handler
\* still completes: the session's entry is removed and the uptime timer
\* cancelled, no retry or other call is left in flight, and the status row
\* keeps the value it had.
C26_FailedWriteIsOnlyLogged ==
  [][\A p \in Pids :
       C26_WriteFails(p)
       => /\ activeStreams'[procs[p].key] = NULL
          /\ ~uptimeInterval' /\ streamStartTime' = NOTIME
          /\ tasks' = tasks
          /\ dbStatus' = dbStatus]_vars

\* an exit was handled with the loop off: the registry is empty and the timer
\* cancelled while the row still says live
C26_Witness ==
  /\ lastClose.seen /\ ~lastClose.handoff
  /\ ~IsStreaming(activeStreams) /\ ~uptimeInterval
  /\ dbStatus.status = "live"

\* an exit handled with the loop on and a non-empty snapshot makes one
\* handoff; the handoff picks an item and, with a profile active, makes one
\* startStream call
C27_OneAttemptPerExit ==
  /\ \A p \in Pids :
       (ProcClose(p) /\ loopEnabled /\ Len(playlist) /= 0)
       => tasks' = Add(tasks, Task("next", "status", NULL, NULL))
  /\ \A t \in InFlight :
       PlayNextResolve(t)
       => \E u \in BagToSet(tasks') : u.op = "next" /\ u.pc = "update"
  /\ \A t \in InFlight :
       (PlayNextPersist(t) /\ activeConfig)
       => tasks' = Becomes(t, [t EXCEPT !.pc = "query"])

\* the launch attempt of a handoff, made with the loop on, a non-empty
\* snapshot and a profile active, leaves something to relaunch from: a
\* process whose exit is still to come, or a call in flight
C27_AttemptKeepsLoopGoing ==
  \A t \in InFlight :
    (t.op = "next" /\ (StartStreamSpawn(t) \/ StartStreamFails(t))
       /\ loopEnabled /\ Len(playlist) /= 0 /\ activeConfig)
    => ~AtRest'

\* C27: the loop relaunches without backoff or limit: with the loop on, a
\* non-empty snapshot and an active profile every process exit makes exactly
\* one handoff and one launch attempt, and no launch attempt ends with the
\* engine at rest, relaunching no more.
C27_LoopNeverGivesUp ==
  [][C27_OneAttemptPerExit /\ C27_AttemptKeepsLoopGoing]_vars

\* C28: a process error starts nothing by itself: neither the error handler
\* nor the exit event that follows the error of the same process makes a
\* handoff or any other call, whatever the loop flag, so no session or process
\* is started before the next start request.
C28_ErrorNeverRelaunches ==
  [][\A p \in Pids :
       (ProcError(p) \/ (ProcClose(p) /\ procs[p].state = "errored"))
       => tasks' = tasks]_vars

\* C29: for every profile whose resolution is not "original" (recognised,
\* unrecognised or absent) the argument list has the filter scale=-2:<height>
\* with the height of the resolution table, 720 by default; for "original"
\* it has no -vf option.
C29_ScaleFilter ==
  lastCall.call = "buildFFmpegArgs"
    => LET args == lastCall.result
       IN IF config.resolution = "original"
          THEN \A i \in 1..Len(args) : args[i] /= "-vf"
          ELSE \E i \in 1..(Len(args) - 1) :
                 /\ args[i] = "-vf"
                 /\ args[i + 1] =
                      "scale=-2:" \o ToString(GetResolutionHeight(config.resolution))

\* list holds every row of videos once, by ascending playlist_order, rows of
\* equal playlist_order by ascending id
C30_ByOrderThenId(list) ==
  /\ Len(list) = Cardinality(videos)
  /\ Items(list) = videos
  /\ \A i, j \in 1..Len(list) :
       i < j => \/ playlistOrder[list[i]] < playlistOrder[list[j]]
                \/ /\ playlistOrder[list[i]] = playlistOrder[list[j]]
                   /\ list[i] < list[j]

\* C30: the snapshot just read by a start lists all rows of videos by
\* ascending playlist_order and, among rows of equal playlist_order, by
\* ascending id, so that the order the advancer follows is a function of the
\* table's content.
C30_SnapshotOrderedByPositionThenId ==
  (lastCall.call = "startStream" /\ lastCall.result = TRUE /\ spawnAvailable)
    => C30_ByOrderThenId(playlist)

\* C31: a step that handles a chunk of diagnostic output (the only steps that
\* return from "stderr"), whatever phrases the chunk holds, leaves the registry, the loop flag, the cursor, the snapshot, the uptime
\* timer, the calls in flight and the status row unchanged and signals no
\* process.
C31_OutputChangesNothing ==
  [][lastCall'.call = "stderr"
       => UNCHANGED <<activeStreams, loopEnabled, currentVideoIndex, playlist,
                      uptimeInterval, streamStartTime, procs, tasks,
                      dbStatus>>]_vars

\* a connection error has just been classified while the session is still
\* registered to a running process, with the timer scheduled
C31_Witness ==
  /\ lastCall.call = "stderr"
  /\ "connection error" \in lastCall.result
  /\ uptimeInterval
  /\ \E k \in Keys :
       activeStreams[k] > 0 /\ procs[activeStreams[k]].state = "running"

\* a stop request has completed its stopAllStreams() and setLoopEnabled(false)
\* and awaits its status write
C32_StopCompleted ==
  ~loopEnabled /\ \E u \in InFlight : u.op = "stop" /\ u.pc = "offline"

\* C32: once a stop request has stopped all streams and cleared the loop flag,
\* a handoff that was in flight when the request came registers no session
\* and spawns no process.
C32_StopEndsHandoff ==
  [][\A t \in InFlight :
       (t.op = "next" /\ C32_StopCompleted)
       => ~(StartStreamSpawn(t) \/ StartStreamMock(t))]_vars

\* C33: whenever the status row says live and no start request or handoff is
\* in flight, the registry holds at least one session.
C33_LiveImpliesSession ==
  (dbStatus.status = "live" /\ NoTasks) => IsStreaming(activeStreams)

\* the snapshot holds an item that startStream can start
C34_Startable == \E id \in Items(playlist) : id \in videos /\ id \in files

\* C34: with the loop on, a profile active and a startable item in the
\* snapshot, the loop does not stall on an item that cannot be started: when
\* the startStream call of a handoff returns false, either a session is
\* registered or a call or process is left from which one will be.
C34_LoopSkipsUnstartable ==
  [][\A t \in InFlight :
       (t.op = "next" /\ StartStreamFails(t)
          /\ loopEnabled /\ activeConfig /\ C34_Startable)
       => (IsStreaming(activeStreams') \/ ~AtRest')]_vars

\* C35: the update that updateStreamStatus builds from the property bag of the
\* exit handler (offline) and of the error handler (error) names only columns
\* of the status table, so the store accepts the write.
C35_HandlerUpdatesNameColumns ==
  [][\A p \in Pids :
       /\ (ProcClose(p) /\ ~CloseHandsOff(p))
            => DOMAIN UpdateData("offline", NULL, OfflineData)
                 \subseteq StatusColumns
       /\ ProcError(p)
            => DOMAIN UpdateData("error", NULL, ErrorData)
                 \subseteq StatusColumns]_vars

\* C36: at most one interval timer of the reconciler exists, and it is the
\* one whose handle the engine holds: starting uptime tracking has cleared the
\* previous interval before creating the new one, so after any sequence of
\* start, stop, exit and error steps no timer is left without its handle.
C36_OneIntervalTimer == timers = IF uptimeInterval THEN 1 ELSE 0

\* a second session was started while the first one, and with it the
\* interval of its start, was still there
C36_Witness ==
  /\ uptimeInterval /\ timers = 1
  /\ \A id \in Videos :
       /\ activeStreams[StreamKey(id)] > 0
       /\ procs[activeStreams[StreamKey(id)]].state = "running"

\* the step neither hands off nor writes the status row, and leaves the loop
\* flag, the cursor, the snapshot and the uptime timer as they are
C37_NothingElse ==
  /\ tasks' = tasks
  /\ dbStatus' = dbStatus
  /\ UNCHANGED <<loopEnabled, currentVideoIndex, playlist, uptimeInterval,
                 timers, streamStartTime>>

\* C37: the exit or error event of a multi-destination process removes the
\* registry entry of its own session and no other entry, and does nothing
\* else: no handoff, no status write, no change of the loop flag or of the
\* uptime timer, with the loop on or off.
C37_MultiEventDropsOwnEntryOnly ==
  [][\A p \in Pids :
       (MultiClose(p) \/ MultiError(p))
       => /\ \A k \in Keys :
               activeStreams'[k] =
                 IF activeStreams[k] = p THEN NULL ELSE activeStreams[k]
          /\ C37_NothingElse]_vars

====
